---- MODULE Spec2Model ----
(***************************************************************************)
(* State-machine model of the chatbot gateway: the websocket endpoint of   *)
(* src/app.py, the message handler and phrase matcher of                   *)
(* src/api/handler.py, the envelope accessors of src/utils/models.py, the  *)
(* session recorder of src/utils/ws_recorder.py and the replay test of     *)
(* test/test_replay_basic.py.                                              *)
(***************************************************************************)
EXTENDS Integers, Sequences, FiniteSets, TLC

(***************************************************************************)
(* Texts.  A text is a TLA+ string; Chars gives its characters, which is   *)
(* what the scorer works on.                                               *)
(***************************************************************************)
Chars(text) ==
  CASE text = "Thank you for joining me"
       -> <<"T","h","a","n","k"," ","y","o","u"," ","f","o","r"," ","j","o","i","n","i","n","g"," ","m","e">>
  [] text = "First, how did you find your care services today"
       -> <<"F","i","r","s","t",","," ","h","o","w"," ","d","i","d"," ","y","o","u"," ","f","i","n","d"," ","y","o","u","r"," ","c","a","r","e"," ","s","e","r","v","i","c","e","s"," ","t","o","d","a","y">>
  [] text = "How could we provide better services next time"
       -> <<"H","o","w"," ","c","o","u","l","d"," ","w","e"," ","p","r","o","v","i","d","e"," ","b","e","t","t","e","r"," ","s","e","r","v","i","c","e","s"," ","n","e","x","t"," ","t","i","m","e">>
  [] text = "What do you like most about the Harvard Medicine Family Van"
       -> <<"W","h","a","t"," ","d","o"," ","y","o","u"," ","l","i","k","e"," ","m","o","s","t"," ","a","b","o","u","t"," ","t","h","e"," ","H","a","r","v","a","r","d"," ","M","e","d","i","c","i","n","e"," ","F","a","m","i","l","y"," ","V","a","n">>
  [] text = "Is there anything else you'd like to share with us"
       -> <<"I","s"," ","t","h","e","r","e"," ","a","n","y","t","h","i","n","g"," ","e","l","s","e"," ","y","o","u","'","d"," ","l","i","k","e"," ","t","o"," ","s","h","a","r","e"," ","w","i","t","h"," ","u","s">>
  [] text = "How could we provide better service next time"
       -> <<"H","o","w"," ","c","o","u","l","d"," ","w","e"," ","p","r","o","v","i","d","e"," ","b","e","t","t","e","r"," ","s","e","r","v","i","c","e"," ","n","e","x","t"," ","t","i","m","e">>
  [] text = "Thank you for zz"
       -> <<"T","h","a","n","k"," ","y","o","u"," ","f","o","r"," ","z","z">>
  [] text = "Thank you for zzz"
       -> <<"T","h","a","n","k"," ","y","o","u"," ","f","o","r"," ","z","z","z">>
  [] text = "did services joining"
       -> <<"d","i","d"," ","s","e","r","v","i","c","e","s"," ","j","o","i","n","i","n","g">>
  [] text = "xyz123"
       -> <<"x","y","z","1","2","3">>
  [] text = "Why is that"
       -> <<"W","h","y"," ","i","s"," ","t","h","a","t">>
  [] OTHER -> <<>>

(***************************************************************************)
(* The reference catalog (handler.py, questions): a dict, so an ordered    *)
(* list of key/value entries in insertion order.                           *)
(***************************************************************************)
questions ==
  << [key |-> "Thank you for joining me", id |-> "q1"],
     [key |-> "First, how did you find your care services today", id |-> "q1"],
     [key |-> "How could we provide better services next time", id |-> "q2"],
     [key |-> "What do you like most about the Harvard Medicine Family Van", id |-> "q3"],
     [key |-> "Is there anything else you'd like to share with us", id |-> "q4"] >>

\* list(questions.keys())
question_texts == [i \in 1..Len(questions) |-> questions[i].key]

\* questions[best_match]
questions_get(k) == questions[CHOOSE i \in 1..Len(questions) : questions[i].key = k].id

\* default of match_question's threshold parameter
DefaultThreshold == 70

\* The texts the model feeds to the matcher.
ScoredTexts ==
  { "First, how did you find your care services today",
    "How could we provide better service next time",
    "Thank you for zz",
    "Thank you for zzz",
    "did services joining",
    "xyz123" }

(***************************************************************************)
(* fuzz.ratio of rapidfuzz: the normalized Indel similarity                *)
(*   100 * (1 - (len1 + len2 - 2*LCS) / (len1 + len2)),                    *)
(* kept as the exact fraction num/den (100 for two empty strings).         *)
(* LCS is the length of the longest common subsequence.  With              *)
(* L[i][j] the LCS of the first i characters of s and the first j of t,    *)
(*   L[i][j] = max(L[i][j-1], L[i-1][j], L[i-1][j-1] + 1 if s[i] = t[j]),  *)
(* so row i is the running maximum of LcsCell over j.  A row is a sequence *)
(* whose element j+1 is L[i][j].  Rows and running maxima are computed by  *)
(* halving the range, which keeps the evaluation shallow.                  *)
(***************************************************************************)
Max2(x, y) == IF x >= y THEN x ELSE y

LcsCell(prev, ch, t, j) == IF t[j] = ch THEN prev[j] + 1 ELSE prev[j + 1]

RECURSIVE LcsRunMax(_, _, _, _, _, _)
LcsRunMax(prev, ch, t, lo, hi, base) ==
  IF lo > hi THEN <<>>
  ELSE IF lo = hi THEN << Max2(base, LcsCell(prev, ch, t, lo)) >>
  ELSE LET mid   == (lo + hi) \div 2
           left  == LcsRunMax(prev, ch, t, lo, mid, base)
           right == LcsRunMax(prev, ch, t, mid + 1, hi, left[Len(left)])
       IN  left \o right

LcsRow(prev, ch, t) == <<0>> \o LcsRunMax(prev, ch, t, 1, Len(t), 0)

RECURSIVE LcsRows(_, _, _, _, _)
LcsRows(s, t, lo, hi, prev) ==
  IF lo > hi THEN prev
  ELSE IF lo = hi THEN LcsRow(prev, s[lo], t)
  ELSE LET mid   == (lo + hi) \div 2
           upper == LcsRows(s, t, lo, mid, prev)
       IN  IF Len(upper) > 0 THEN LcsRows(s, t, mid + 1, hi, upper) ELSE upper

LCS(s, t) == LcsRows(s, t, 1, Len(s), [j \in 1..(Len(t) + 1) |-> 0])[Len(t) + 1]

fuzz_ratio(s1, s2) ==
  LET total == Len(s1) + Len(s2)
  IN  IF total = 0 THEN [num |-> 100, den |-> 1]
      ELSE [num |-> 100 * 2 * LCS(s1, s2), den |-> total]

\* comparisons of scores
ScoreGT(a, b) == a.num * b.den > b.num * a.den
ScoreGE(a, b) == a.num * b.den >= b.num * a.den
ScoreOfInt(n) == [num |-> n, den |-> 1]

\* The scores of every fed text against every catalog key, tabulated once.
ScoreTable ==
  [q \in ScoredTexts |->
     [i \in 1..Len(question_texts) |-> fuzz_ratio(Chars(q), Chars(question_texts[i]))]]

(***************************************************************************)
(* process.extractOne(query, choices, scorer=fuzz.ratio): scans the        *)
(* choices in order and keeps a choice only when its score is strictly     *)
(* greater than the best so far; returns (choice, score, index).           *)
(***************************************************************************)
\* variant: a later choice of equal score replaces the best so far
extractOne_keep_last(score, bestScore) == ScoreGE(score, bestScore)

extractOne_keep(score, bestScore) == ScoreGT(score, bestScore)

RECURSIVE extractOne_scan(_, _, _, _)
extractOne_scan(query, choices, i, best) ==
  IF i > Len(choices) THEN best
  ELSE extractOne_scan(query, choices, i + 1,
         IF best = 0 \/ extractOne_keep(ScoreTable[query][i], ScoreTable[query][best])
         THEN i ELSE best)

extractOne(query, choices) ==
  LET idx == extractOne_scan(query, choices, 1, 0)
  IN  [choice |-> choices[idx], score |-> ScoreTable[query][idx], idx |-> idx]

\* Python's Optional values: None is <<>>, a value x is <<x>>.
None == <<>>
Some(x) == <<x>>
IsNone(o) == Len(o) = 0
Get(o) == o[1]

\* handler.py, match_question
match_question_accepts(score, threshold) == ScoreGE(score, ScoreOfInt(threshold))

\* variant: the best match is returned whatever its score
match_question_no_threshold(input_sentence, threshold) ==
  Some(questions_get(extractOne(input_sentence, question_texts).choice))

match_question(input_sentence, threshold) ==
  LET r == extractOne(input_sentence, question_texts)
  IN  IF match_question_accepts(r.score, threshold)
      THEN Some(questions_get(r.choice))
      ELSE None

(***************************************************************************)
(* Raw payloads.  A raw payload is a text, named here by a short string;   *)
(* json_loads gives what the text parses to: whether it is JSON at all,    *)
(* whether it is an object, which of the required fields it carries, its   *)
(* name and its body.                                                      *)
(***************************************************************************)
EmptyBody ==
  [null |-> TRUE, hasInput |-> FALSE, hasText |-> FALSE, text |-> "",
   textType |-> "str", optKind |-> "", hasCollector |-> FALSE, dataCollector |-> "",
   hasResults |-> FALSE, results |-> <<>>]

InputBody(t) == [EmptyBody EXCEPT !.null = FALSE, !.hasInput = TRUE, !.hasText = TRUE, !.text = t]

RequiredFields == {"category", "kind", "name"}

Envelope(n, b) == [form |-> "object", required |-> RequiredFields, name |-> n, body |-> b]

json_loads(raw) ==
  CASE raw = "req_init_why"
       -> Envelope("conversationRequest", [InputBody("Why is that") EXCEPT !.optKind = "init"])
  []   raw = "req_empty"
       -> Envelope("conversationRequest", InputBody(""))
  []   raw = "res_exact"
       -> Envelope("conversationResult", InputBody("First, how did you find your care services today"))
  []   raw = "res_near"
       -> Envelope("conversationResult", InputBody("How could we provide better service next time"))
  []   raw = "res_below"
       -> Envelope("conversationResult", InputBody("Thank you for zzz"))
  []   raw = "res_empty"
       -> Envelope("conversationResult", InputBody(""))
  []   raw = "res_noinput"
       -> Envelope("conversationResult", [EmptyBody EXCEPT !.null = FALSE, !.optKind = "other"])
  []   raw = "state_collector"
       -> Envelope("state", [EmptyBody EXCEPT !.null = FALSE, !.hasCollector = TRUE, !.dataCollector = "abc"])
  []   raw = "rec_hello"
       -> Envelope("recognizeResults",
            [EmptyBody EXCEPT !.null = FALSE, !.hasResults = TRUE,
               !.results = << [final |-> TRUE,
                               alternatives |-> << [confidence |-> 90, transcript |-> "Hello"] >>] >>])
  []   raw = "res_number"
       -> Envelope("conversationResult", [InputBody("123") EXCEPT !.textType = "int"])
  []   raw = "res_exact_no_category"
       -> [form |-> "object", required |-> {"kind", "name"}, name |-> "conversationResult",
           body |-> InputBody("First, how did you find your care services today")]
  []   raw = "other_exact"
       -> Envelope("somethingElse", InputBody("First, how did you find your care services today"))
  []   raw = "rec_empty_then_high"
       -> Envelope("recognizeResults",
            [EmptyBody EXCEPT !.null = FALSE, !.hasResults = TRUE,
               !.results = << [final |-> TRUE, alternatives |-> << >>],
                              [final |-> TRUE,
                               alternatives |-> << [confidence |-> 90, transcript |-> "High"] >>] >>])
  []   raw = "rec_low_then_high"
       -> Envelope("recognizeResults",
            [EmptyBody EXCEPT !.null = FALSE, !.hasResults = TRUE,
               !.results = << [final |-> FALSE,
                               alternatives |-> << [confidence |-> 95, transcript |-> "Partial"] >>],
                              [final |-> TRUE,
                               alternatives |-> << [confidence |-> 40, transcript |-> "Lowest"],
                                                   [confidence |-> 50, transcript |-> "Low"] >>],
                              [final |-> TRUE,
                               alternatives |-> << [confidence |-> 90, transcript |-> "High"] >>] >>])
  []   raw = "not_object"
       -> [form |-> "array", required |-> {}, name |-> "", body |-> EmptyBody]
  []   OTHER
       -> [form |-> "malformed", required |-> {}, name |-> "", body |-> EmptyBody]

\* The payloads a peer sends in the model of one connection.
Inbound ==
  { "req_init_why", "req_empty", "res_exact", "res_near", "res_below",
    "res_empty", "res_noinput", "state_collector", "rec_hello", "bad_json",
    "res_number", "res_exact_no_category", "other_exact", "rec_empty_then_high",
    "rec_low_then_high", "not_object" }

\* The payloads the peers send in the model of two connections side by side:
\* one that is answered, one that is not, one that is no envelope.
InboundConcurrent == { "res_exact", "res_below", "bad_json" }

(***************************************************************************)
(* models.py, FlexMessage: validation and the accessors the handler and    *)
(* the recorder use.                                                       *)
(***************************************************************************)
\* variant: any JSON object validates, whichever fields it has
FlexMessage_valid_any_object(raw) ==
  json_loads(raw).form = "object"

\* FlexMessage.model_validate_json succeeds (otherwise it raises)
FlexMessage_valid(raw) ==
  /\ json_loads(raw).form = "object"
  /\ json_loads(raw).required = RequiredFields

\* truthiness of self.body: neither null nor an empty dict
body_truthy(b) ==
  /\ ~b.null
  /\ b.hasInput \/ b.optKind # "" \/ b.hasCollector \/ b.hasResults

get_input_text(msg) ==
  IF body_truthy(msg.body) /\ msg.body.hasInput
  THEN (IF msg.body.hasText THEN Some(msg.body.text) ELSE None)
  ELSE None

get_data_collector(msg) ==
  IF body_truthy(msg.body)
  THEN (IF msg.body.hasCollector THEN Some(msg.body.dataCollector) ELSE None)
  ELSE None

\* max(alts, key=confidence): the first alternative of maximal confidence
max_confidence(alts) ==
  CHOOSE i \in 1..Len(alts) :
    /\ \A j \in 1..Len(alts) : alts[j].confidence <= alts[i].confidence
    /\ \A j \in 1..(i - 1) : alts[j].confidence < alts[i].confidence

\* returns at the first result whose final is True
get_user_text(msg) ==
  IF ~body_truthy(msg.body) \/ ~msg.body.hasResults THEN None
  ELSE LET results == msg.body.results
           finals  == {i \in 1..Len(results) : results[i].final}
       IN  IF finals = {} THEN None
           ELSE LET first == CHOOSE i \in finals : \A j \in finals : i <= j
                    alts  == results[first].alternatives
                IN  IF Len(alts) = 0 THEN None
                    ELSE Some(alts[max_confidence(alts)].transcript)

\* models.py, ConversationRequestMessage.is_init_request
is_init_request(msg) == msg.body.optKind = "init"

\* Python truthiness of an Optional[str]
truthy(o) == ~IsNone(o) /\ Get(o) # ""

(***************************************************************************)
(* handler.py: the outbound text a message makes the handler send, None    *)
(* when it sends nothing.  json.dumps is deterministic, so the text sent   *)
(* is represented by the object it serializes.                             *)
(***************************************************************************)
json_dumps(obj) == [json |-> obj]

image_url(qnum) == "https://clinicfeedback.org/images/en_" \o qnum \o ".png"

\* variant: the attachment always shows the image of the first question
response_body_fixed_image(input_text, qnum) ==
  [input     |-> [text |-> input_text],
   output    |-> [text |-> ""],
   variables |-> (qnum :> [component |-> "image",
                           data |-> [alt |-> "q1", url |-> image_url("q1")]])]

response_body(input_text, qnum) ==
  [input     |-> [text |-> input_text],
   output    |-> [text |-> ""],
   variables |-> (qnum :> [component |-> "image",
                           data |-> [alt |-> qnum, url |-> image_url(qnum)]])]

send_conversation_response(body) ==
  json_dumps([category |-> "scene", kind |-> "request",
              name |-> "conversationResponse", body |-> body])

\* extractOne raises TypeError when the text of the input is no string
match_question_raises(request) ==
  /\ truthy(get_input_text(request))
  /\ request.body.textType # "str"

handle_conversation_result(request) ==
  LET input_text == get_input_text(request)
  IN  IF ~truthy(input_text) THEN None
      ELSE IF match_question_raises(request) THEN None
      ELSE LET qnum == match_question(Get(input_text), DefaultThreshold)
           IN  IF IsNone(qnum) THEN None
               ELSE Some(send_conversation_response(response_body(Get(input_text), Get(qnum))))

\* variant: every envelope but a conversationRequest goes to the result handler
handle_message_any_name(message) ==
  IF ~FlexMessage_valid(message) THEN None
  ELSE LET msg == json_loads(message)
       IN  IF msg.name # "conversationRequest"
           THEN handle_conversation_result(msg)
           ELSE None

\* a validation failure, like any other exception, raises inside the try block
\* and is logged by the except clause: nothing is sent and nothing propagates
handle_message(message) ==
  IF ~FlexMessage_valid(message) THEN None
  ELSE LET msg == json_loads(message)
       IN  IF msg.name = "conversationResult"
           THEN handle_conversation_result(msg)
           ELSE None

(***************************************************************************)
(* ws_recorder.py, record_convertation: the lines written to the report    *)
(* file and whether the call raises.  It raises IndexError on an empty     *)
(* buffer and ValidationError at the first entry that is no envelope; the  *)
(* lines written before the failure stay in the file.                      *)
(***************************************************************************)
opt_str(o) == IF IsNone(o) THEN "None" ELSE Get(o)

\* variant: every entry with input text gives a Listener line, whatever its name
entry_lines_any_input(record) ==
  LET msg == json_loads(record.data)
  IN  IF msg.name = "recognizeResults"
      THEN (IF truthy(get_user_text(msg)) THEN <<"Patient: " \o Get(get_user_text(msg))>> ELSE <<>>)
      ELSE (IF truthy(get_input_text(msg)) THEN <<"Listener: " \o Get(get_input_text(msg))>> ELSE <<>>)

entry_lines(record) ==
  LET msg == json_loads(record.data)
  IN  IF msg.name = "recognizeResults"
      THEN (IF truthy(get_user_text(msg)) THEN <<"Patient: " \o Get(get_user_text(msg))>> ELSE <<>>)
      ELSE IF msg.name = "conversationResult"
      THEN (IF truthy(get_input_text(msg)) THEN <<"Listener: " \o Get(get_input_text(msg))>> ELSE <<>>)
      ELSE <<>>

RECURSIVE body_lines(_, _)
body_lines(buffer, i) ==
  IF i > Len(buffer) THEN [lines |-> <<>>, raised |-> FALSE]
  ELSE IF ~FlexMessage_valid(buffer[i].data) THEN [lines |-> <<>>, raised |-> TRUE]
  ELSE LET rest == body_lines(buffer, i + 1)
       IN  [lines |-> entry_lines(buffer[i]) \o rest.lines, raised |-> rest.raised]

record_convertation(buffer) ==
  IF Len(buffer) = 0 THEN [lines |-> <<>>, raised |-> TRUE]
  ELSE IF ~FlexMessage_valid(buffer[1].data) THEN [lines |-> <<>>, raised |-> TRUE]
  ELSE LET header == << "Datetime: " \o ToString(buffer[1].timestamp),
                        "SessionId: " \o opt_str(get_data_collector(json_loads(buffer[1].data))) >>
           rest   == body_lines(buffer, 1)
       IN  [lines |-> header \o rest.lines, raised |-> rest.raised]

(***************************************************************************)
(* The state.                                                              *)
(***************************************************************************)
\* bounds of the model
MaxMsgs  == 2      \* inbound messages over all connections
MaxClock == 2      \* seconds of wall-clock time

\* the connections the server handles
Conns == {1, 2}

VARIABLES
  now,          \* wall clock, in seconds
  session_id,   \* recorder.session_id      (one recorder for the process, app.py)
  trace_file,   \* recorder.trace_file
  rpt_file,     \* recorder.rpt_file
  transcript,   \* recorder.transcript, the in-memory buffer
  trace,        \* the trace files on disk: file name -> lines
  rpt,          \* the report files on disk: file name -> [exists, lines]
  pc,           \* position of each connection's websocket_endpoint call
  inbox,        \* history: the payloads each connection has received
  replies,      \* history: per received payload, what the handler produced
  calls,        \* history: the recorder calls each connection has made
  own,          \* history: the session id each connection's start() created
  matchCall,    \* a call of match_question: its arguments and result
  replay        \* the replay test: the recording it runs and where it stands

vars == <<now, session_id, trace_file, rpt_file, transcript, trace, rpt,
          pc, inbox, replies, calls, own, matchCall, replay>>

recorderVars == <<session_id, trace_file, rpt_file, transcript, trace, rpt>>

SessionName(t) == "session_" \o ToString(t)
SessionNames   == {SessionName(t) : t \in 1..MaxClock}
TraceName(sid) == sid \o ".jsonl"
RptName(sid)   == sid \o ".rpt"

NoMatchCall == [input |-> "", threshold |-> 0, done |-> FALSE, result |-> None]

\* no replay test is running
NoReplay == [records |-> <<>>, i |-> 0, fed |-> 0, response_index |-> 0, phase |-> "off"]

Init ==
  /\ now = 1
  /\ session_id = "None"
  /\ trace_file = "None"
  /\ rpt_file = "None"
  /\ transcript = <<>>
  /\ trace = [f \in {TraceName(s) : s \in SessionNames} |-> <<>>]
  /\ rpt = [f \in {RptName(s) : s \in SessionNames} |-> [exists |-> FALSE, lines |-> <<>>]]
  /\ pc = [c \in Conns |-> "idle"]
  /\ inbox = [c \in Conns |-> <<>>]
  /\ replies = [c \in Conns |-> <<>>]
  /\ calls = [c \in Conns |-> <<>>]
  /\ own = [c \in Conns |-> "None"]
  /\ matchCall = NoMatchCall
  /\ replay = NoReplay

Received == Len(inbox[1]) + Len(inbox[2])

Call(op, direction, data) == [op |-> op, direction |-> direction, data |-> data]

(***************************************************************************)
(* ws_recorder.py: the recorder's methods as state changes.                *)
(***************************************************************************)
\* the entry record() appends
record_entry(direction, data) == [timestamp |-> now, direction |-> direction, data |-> data]

\* variant: the newest entry is put in front
record_buffer_prepend(buffer, entry) == <<entry>> \o buffer

\* the buffer after record()
record_buffer(buffer, entry) == Append(buffer, entry)

\* variant: the entry is kept in memory only
record_file_unwritten(lines, entry) == lines

\* the trace file after record(): opened in append mode
record_file(lines, entry) == Append(lines, entry)

start ==
  /\ session_id' = SessionName(now)
  /\ trace_file' = TraceName(SessionName(now))
  /\ transcript' = <<>>
  /\ UNCHANGED <<rpt_file, trace, rpt>>

record(direction, data) ==
  /\ transcript' = record_buffer(transcript, record_entry(direction, data))
  /\ trace' = [trace EXCEPT ![trace_file] = record_file(@, record_entry(direction, data))]
  /\ UNCHANGED <<session_id, trace_file, rpt_file, rpt>>

\* stop() raises when record_convertation does, before the buffer is cleared
stop_raises == record_convertation(transcript).raised

stop ==
  /\ rpt_file' = RptName(session_id)
  /\ rpt' = [rpt EXCEPT ![RptName(session_id)] =
                [exists |-> TRUE, lines |-> record_convertation(transcript).lines]]
  /\ transcript' = IF stop_raises THEN transcript ELSE <<>>
  /\ UNCHANGED <<session_id, trace_file, trace>>

(***************************************************************************)
(* app.py, websocket_endpoint: one call per connection.  The coroutine     *)
(* gives up control only at its awaits on the socket, so each action runs  *)
(* from one such await to the next.                                        *)
(*   idle -> accepted -> recv <-> send ; recv/closed -> done/raised        *)
(***************************************************************************)
\* await websocket.accept()
Accept(c) ==
  /\ pc[c] = "idle"
  /\ pc' = [pc EXCEPT ![c] = "accepted"]
  /\ UNCHANGED <<now, recorderVars, inbox, replies, calls, own, matchCall, replay>>

\* await recorder.start(), then the loop waits in receive_text()
Start(c) ==
  /\ pc[c] = "accepted"
  /\ start
  /\ own' = [own EXCEPT ![c] = SessionName(now)]
  /\ calls' = [calls EXCEPT ![c] = Append(@, Call("start", "", ""))]
  /\ pc' = [pc EXCEPT ![c] = "recv"]
  /\ UNCHANGED <<now, inbox, replies, matchCall, replay>>

\* variant: the engine answers a payload only the first time it sees it
Receive_with_memory(c, data) ==
  /\ pc[c] = "recv"
  /\ Received < MaxMsgs
  /\ record("recv", data)
  /\ inbox' = [inbox EXCEPT ![c] = Append(@, data)]
  /\ calls' = [calls EXCEPT ![c] = Append(@, Call("record", "recv", data))]
  /\ LET seen == \E d \in Conns : \E i \in 1..Len(inbox[d]) : inbox[d][i] = data
         out  == IF seen THEN None ELSE handle_message(data)
     IN  IF IsNone(out)
         THEN /\ replies' = [replies EXCEPT ![c] = Append(@, [status |-> "silent", out |-> <<>>])]
              /\ pc' = pc
         ELSE /\ replies' = [replies EXCEPT ![c] = Append(@, [status |-> "sending", out |-> out])]
              /\ pc' = [pc EXCEPT ![c] = "send"]
  /\ UNCHANGED <<now, own, matchCall, replay>>

\* receive_text() returns data; record("recv", data); handle_message runs up
\* to its send_text, if it has one
Receive(c, data) ==
  /\ pc[c] = "recv"
  /\ Received < MaxMsgs
  /\ record("recv", data)
  /\ inbox' = [inbox EXCEPT ![c] = Append(@, data)]
  /\ calls' = [calls EXCEPT ![c] = Append(@, Call("record", "recv", data))]
  /\ LET out == handle_message(data)
     IN  IF IsNone(out)
         THEN /\ replies' = [replies EXCEPT ![c] = Append(@, [status |-> "silent", out |-> <<>>])]
              /\ pc' = pc
         ELSE /\ replies' = [replies EXCEPT ![c] = Append(@, [status |-> "sending", out |-> out])]
              /\ pc' = [pc EXCEPT ![c] = "send"]
  /\ UNCHANGED <<now, own, matchCall, replay>>

\* variant: the send is left to a background task, the loop receives at once
Send_in_background(c) ==
  /\ pc[c] = "send"
  /\ pc' = [pc EXCEPT ![c] = "recv"]
  /\ UNCHANGED <<now, recorderVars, inbox, replies, calls, own, matchCall, replay>>

\* ws.send_text completes: the text is on the wire, the loop receives again
Send(c) ==
  /\ pc[c] = "send"
  /\ replies' = [replies EXCEPT ![c][Len(replies[c])].status = "sent"]
  /\ pc' = [pc EXCEPT ![c] = "recv"]
  /\ UNCHANGED <<now, recorderVars, inbox, calls, own, matchCall, replay>>

\* ws.send_text raises (the peer is gone): handle_message's except clause logs
\* it and returns, the loop goes on to a receive_text that can only fail
SendFail(c) ==
  /\ pc[c] = "send"
  /\ replies' = [replies EXCEPT ![c][Len(replies[c])].status = "failed"]
  /\ pc' = [pc EXCEPT ![c] = "closed"]
  /\ UNCHANGED <<now, recorderVars, inbox, calls, own, matchCall, replay>>

\* receive_text raises WebSocketDisconnect: logged, then finally: stop()
Disconnect(c) ==
  /\ pc[c] \in {"recv", "closed"}
  /\ stop
  /\ calls' = [calls EXCEPT ![c] = Append(@, Call("stop", "", ""))]
  /\ pc' = [pc EXCEPT ![c] = IF stop_raises THEN "raised" ELSE "done"]
  /\ UNCHANGED <<now, inbox, replies, own, matchCall, replay>>

\* variant: stop() is reached on a disconnect only
Fault_without_stop(c) ==
  /\ pc[c] \in {"recv", "closed"}
  /\ pc' = [pc EXCEPT ![c] = "raised"]
  /\ UNCHANGED <<now, recorderVars, inbox, replies, calls, own, matchCall, replay>>

\* receive_text raises anything else (a frame that is no text, a broken
\* transport): logged and re-raised, finally: stop() runs first
Fault(c) ==
  /\ pc[c] \in {"recv", "closed"}
  /\ stop
  /\ calls' = [calls EXCEPT ![c] = Append(@, Call("stop", "", ""))]
  /\ pc' = [pc EXCEPT ![c] = "raised"]
  /\ UNCHANGED <<now, inbox, replies, own, matchCall, replay>>

\* a second of wall-clock time passes
Tick ==
  /\ now < MaxClock
  /\ now' = now + 1
  /\ UNCHANGED <<recorderVars, pc, inbox, replies, calls, own, matchCall, replay>>

Next ==
  \/ Tick
  \/ \E c \in Conns : Accept(c)
  \/ \E c \in Conns : Start(c)
  \/ \E c \in Conns, data \in InboundConcurrent : Receive(c, data)
  \/ \E c \in Conns : Send(c)
  \/ \E c \in Conns : SendFail(c)
  \/ \E c \in Conns : Disconnect(c)
  \/ \E c \in Conns : Fault(c)

\* two connections served side by side by the one process
Spec == Init /\ [][Next]_vars

\* a single connection, hence a single session of the recorder
NextSingle ==
  \/ Tick
  \/ Accept(1)
  \/ Start(1)
  \/ \E data \in Inbound : Receive(1, data)
  \/ Send(1)
  \/ SendFail(1)
  \/ Disconnect(1)
  \/ Fault(1)

SpecSingle == Init /\ [][NextSingle]_vars

(***************************************************************************)
(* match_question as a function of its two arguments: the text and the     *)
(* threshold are drawn from the fed texts and from 0..MaxThreshold.        *)
(***************************************************************************)
MaxThreshold == 100

InitMatch ==
  /\ now = 1
  /\ session_id = "None"
  /\ trace_file = "None"
  /\ rpt_file = "None"
  /\ transcript = <<>>
  /\ trace = [f \in {TraceName(s) : s \in SessionNames} |-> <<>>]
  /\ rpt = [f \in {RptName(s) : s \in SessionNames} |-> [exists |-> FALSE, lines |-> <<>>]]
  /\ pc = [c \in Conns |-> "idle"]
  /\ inbox = [c \in Conns |-> <<>>]
  /\ replies = [c \in Conns |-> <<>>]
  /\ calls = [c \in Conns |-> <<>>]
  /\ own = [c \in Conns |-> "None"]
  /\ matchCall \in [input : ScoredTexts, threshold : 0..MaxThreshold,
                    done : {FALSE}, result : {None}]
  /\ replay = NoReplay

MatchQuestion ==
  /\ ~matchCall.done
  /\ matchCall' = [matchCall EXCEPT !.done = TRUE,
                     !.result = match_question(matchCall.input, matchCall.threshold)]
  /\ UNCHANGED <<now, recorderVars, pc, inbox, replies, calls, own, replay>>

NextMatch == MatchQuestion

SpecMatch == InitMatch /\ [][NextMatch]_vars

(***************************************************************************)
(* test_replay_basic.py, test_websocket_with_recording: the test connects  *)
(* to the server as connection 1 and runs a recording against it.  A       *)
(* record of the recording has a direction and a text; the text of an      *)
(* inbound record is a payload (field data), the text of a "sent" record   *)
(* is represented, like every text the server sends, by the object it      *)
(* serializes (field sent).                                                *)
(*   connect -> loop <-> await ; loop -> passed ; await -> failed          *)
(***************************************************************************)
MaxRecords == 3    \* records of a recording

\* the payloads of the inbound records
ReplayInbound == { "res_exact", "res_below" }

\* the texts of the "sent" records: the answer of the engine to res_exact,
\* and an answer it gives to nothing
ReplaySent ==
  { Get(handle_message("res_exact")),
    send_conversation_response(
      response_body("First, how did you find your care services today", "q4")) }

LogRecords ==
  { [direction |-> d, data |-> x, sent |-> << >>] :
      d \in {"recv", "received"}, x \in ReplayInbound }
  \cup { [direction |-> "sent", data |-> "", sent |-> << t >>] : t \in ReplaySent }

\* record["direction"] == "received" or record["direction"] == "recv"
is_inbound(rec) == rec.direction \in {"received", "recv"}

is_sent(rec) == rec.direction = "sent"

\* the records the test sends, in order
inbound_records(records) == SelectSeq(records, is_inbound)

\* expected_responses = [r["data"] for r in records if r["direction"] == "sent"]
expected_responses(records) ==
  LET sent == SelectSeq(records, is_sent)
  IN  [k \in 1..Len(sent) |-> sent[k].sent[1]]

\* the recordings of the model: at most MaxRecords records, of which the
\* server can take the inbound ones
Recordings ==
  { r \in UNION { [1..n -> LogRecords] : n \in 0..MaxRecords } :
      Len(inbound_records(r)) <= MaxMsgs }

\* the texts connection c has put on the wire, in order
RECURSIVE wire(_, _)
wire(c, k) ==
  IF k > Len(replies[c]) THEN << >>
  ELSE (IF replies[c][k].status = "sent" THEN replies[c][k].out ELSE << >>)
         \o wire(c, k + 1)

InitReplay ==
  /\ now = 1
  /\ session_id = "None"
  /\ trace_file = "None"
  /\ rpt_file = "None"
  /\ transcript = <<>>
  /\ trace = [f \in {TraceName(s) : s \in SessionNames} |-> <<>>]
  /\ rpt = [f \in {RptName(s) : s \in SessionNames} |-> [exists |-> FALSE, lines |-> <<>>]]
  /\ pc = [c \in Conns |-> "idle"]
  /\ inbox = [c \in Conns |-> <<>>]
  /\ replies = [c \in Conns |-> <<>>]
  /\ calls = [c \in Conns |-> <<>>]
  /\ own = [c \in Conns |-> "None"]
  /\ matchCall = NoMatchCall
  /\ replay \in [records : Recordings, i : {0}, fed : {0}, response_index : {0},
                  phase : {"connect"}]

serverVars == <<now, recorderVars, pc, inbox, replies, calls, own, matchCall>>

\* client.websocket_connect("/") returns once the server has accepted;
\* expected_responses is built, response_index = 0, the loop starts
ReplayEnter ==
  /\ replay.phase = "connect"
  /\ pc[1] # "idle"
  /\ replay' = [replay EXCEPT !.phase = "loop", !.i = 1]
  /\ UNCHANGED serverVars

\* one round of the for loop, up to its receive_text if it has one
ReplayStep ==
  /\ replay.phase = "loop"
  /\ replay.i <= Len(replay.records)
  /\ IF is_inbound(replay.records[replay.i])
     THEN IF replay.response_index < Len(expected_responses(replay.records))
          THEN replay' = [replay EXCEPT !.fed = @ + 1, !.phase = "await"]
          ELSE replay' = [replay EXCEPT !.fed = @ + 1, !.i = @ + 1]
     ELSE replay' = [replay EXCEPT !.i = @ + 1]
  /\ UNCHANGED serverVars

\* receive_text() returns the next text the server has sent; the assert
ReplayReceive ==
  /\ replay.phase = "await"
  /\ Len(wire(1, 1)) > replay.response_index
  /\ LET response == wire(1, 1)[replay.response_index + 1]
     IN  IF response = expected_responses(replay.records)[replay.response_index + 1]
         THEN replay' = [replay EXCEPT !.response_index = @ + 1, !.i = @ + 1, !.phase = "loop"]
         ELSE replay' = [replay EXCEPT !.phase = "failed"]
  /\ UNCHANGED serverVars

\* the for loop is through: the test passes
ReplayExit ==
  /\ replay.phase = "loop"
  /\ replay.i > Len(replay.records)
  /\ replay' = [replay EXCEPT !.phase = "passed"]
  /\ UNCHANGED serverVars

\* the server receives the next text the test has sent
ReplayDeliver ==
  /\ Len(inbox[1]) < replay.fed
  /\ Receive(1, inbound_records(replay.records)[Len(inbox[1]) + 1].data)

\* leaving the with block, passed or failed, closes the connection
ReplayClose ==
  /\ replay.phase \in {"passed", "failed"}
  /\ Disconnect(1)

NextReplay ==
  \/ Accept(1)
  \/ Start(1)
  \/ ReplayEnter
  \/ ReplayStep
  \/ ReplayDeliver
  \/ Send(1)
  \/ ReplayReceive
  \/ ReplayExit
  \/ ReplayClose

SpecReplay == InitReplay /\ [][NextReplay]_vars

(***************************************************************************)
(* Properties.                                                             *)
(***************************************************************************)
TypeOK ==
  /\ now \in 1..MaxClock
  /\ \A c \in Conns : pc[c] \in {"idle", "accepted", "recv", "send", "closed", "done", "raised"}
  /\ \A c \in Conns : Len(replies[c]) = Len(inbox[c])

\* message i of connection c has been handled to the end: a later message was
\* received, or the loop is back in receive_text, or the connection is over
Handled(c, i) ==
  /\ i \in 1..Len(inbox[c])
  /\ i < Len(inbox[c]) \/ pc[c] \in {"recv", "closed", "done", "raised"}

IsRequest(raw) ==
  /\ FlexMessage_valid(raw)
  /\ json_loads(raw).name = "conversationRequest"
  /\ json_loads(raw).body.hasText

IsResult(raw) ==
  /\ FlexMessage_valid(raw)
  /\ json_loads(raw).name = "conversationResult"

\* the text starts with "why", whatever the case of its letters
StartsWithWhy(text) ==
  /\ Len(Chars(text)) >= 3
  /\ Chars(text)[1] \in {"w", "W"}
  /\ Chars(text)[2] \in {"h", "H"}
  /\ Chars(text)[3] \in {"y", "Y"}

\* C1: every handled conversationRequest has exactly one conversationResponse
\* sent in reaction to it, before the next inbound message is processed.
C1_OneResponsePerRequest ==
  \A c \in Conns : \A i \in 1..Len(inbox[c]) :
    (Handled(c, i) /\ IsRequest(inbox[c][i]))
      => /\ replies[c][i].status = "sent"
         /\ Len(replies[c][i].out) = 1
         /\ replies[c][i].out[1].json.name = "conversationResponse"

\* C2: an init request whose text starts with "why" is answered "Hello there!"
\* (and so not with the fallback text).
C2_InitBeatsWhy ==
  \A c \in Conns : \A i \in 1..Len(inbox[c]) :
    (/\ Handled(c, i)
     /\ IsRequest(inbox[c][i])
     /\ is_init_request(json_loads(inbox[c][i]))
     /\ StartsWithWhy(json_loads(inbox[c][i]).body.text))
      => /\ Len(replies[c][i].out) = 1
         /\ replies[c][i].out[1].json.body.output.text = "Hello there!"

\* the input text of a conversationResult, "" when it has none
ResultText(raw) ==
  IF json_loads(raw).body.hasInput /\ json_loads(raw).body.hasText
  THEN json_loads(raw).body.text ELSE ""

\* the best score of text q over the catalog is below the threshold thr
BestBelow(q, thr) ==
  \A k \in 1..Len(questions) : ScoreTable[q][k].num < thr * ScoreTable[q][k].den

\* a conversationResult with non-empty text for which the matcher finds an id
Matching(raw) ==
  /\ IsResult(raw)
  /\ json_loads(raw).body.textType = "str"
  /\ ResultText(raw) # ""
  /\ ~IsNone(match_question(ResultText(raw), DefaultThreshold))

\* a conversationResult without text, with empty text, or scoring below the threshold
Unmatched(raw) ==
  /\ IsResult(raw)
  /\ json_loads(raw).body.textType = "str"
  /\ ResultText(raw) = "" \/ BestBelow(ResultText(raw), DefaultThreshold)

\* C3: for a conversationResult with non-empty text T that the matcher maps to
\* Q, the one outbound message is the envelope scene/request/
\* conversationResponse with body.input.text = T, body.output.text = "" and
\* body.variables = {Q: image attachment with alt Q and the url of Q}.
C3_MatchedResponse ==
  \A c \in Conns : \A i \in 1..Len(inbox[c]) :
    Matching(inbox[c][i])
      => LET T == ResultText(inbox[c][i])
             Q == Get(match_question(T, DefaultThreshold))
             r == replies[c][i]
         IN  /\ Len(r.out) = 1
             /\ r.status \in {"sending", "sent", "failed"}
             /\ Handled(c, i) => r.status \in {"sent", "failed"}
             /\ r.out[1].json.category = "scene"
             /\ r.out[1].json.kind = "request"
             /\ r.out[1].json.name = "conversationResponse"
             /\ r.out[1].json.body.input.text = T
             /\ r.out[1].json.body.output.text = ""
             /\ DOMAIN r.out[1].json.body.variables = {Q}
             /\ r.out[1].json.body.variables[Q].component = "image"
             /\ r.out[1].json.body.variables[Q].data.alt = Q
             /\ r.out[1].json.body.variables[Q].data.url
                  = "https://clinicfeedback.org/images/en_" \o Q \o ".png"

C3_Witness ==
  \E c \in Conns : \E i \in 1..Len(inbox[c]) :
    /\ Matching(inbox[c][i])
    /\ replies[c][i].status = "sent"
    /\ DOMAIN replies[c][i].out[1].json.body.variables = {"q2"}

\* C4: a conversationResult without text, with empty text or scoring below
\* the threshold gets no outbound message, and the step that handles it
\* leaves the connection in its receive loop, ready for the next message.
C4_Silence ==
  [][\A c \in Conns :
       (Len(inbox'[c]) = Len(inbox[c]) + 1 /\ Unmatched(inbox'[c][Len(inbox'[c])]))
         => /\ replies'[c][Len(inbox'[c])] = [status |-> "silent", out |-> <<>>]
            /\ \A i \in 1..Len(inbox[c]) : replies'[c][i] = replies[c][i]
            /\ pc'[c] = "recv"]_vars

C4_Witness ==
  \E c \in Conns :
    /\ Len(inbox[c]) = 2
    /\ inbox[c][1] = "res_below"
    /\ replies[c][1].status = "silent"
    /\ replies[c][2].status = "sent"

\* C5: match_question returns the id of the first catalog key (in insertion
\* order) among those of maximal score when that score is at least the
\* threshold, and None when it is below.
C5_FirstBestOrNone ==
  matchCall.done =>
    LET q    == matchCall.input
        thr  == matchCall.threshold
        n    == Len(questions)
        S(k) == ScoreTable[q][k]
        IsBest(k) == \A j \in 1..n : S(k).num * S(j).den >= S(j).num * S(k).den
        best == CHOOSE k \in 1..n : IsBest(k) /\ \A j \in 1..(k - 1) : ~IsBest(j)
    IN  IF S(best).num >= thr * S(best).den
        THEN matchCall.result = <<questions[best].id>>
        ELSE matchCall.result = <<>>

\* two keys with different ids share the maximal score, which reaches the threshold
C5_Witness ==
  /\ matchCall.done
  /\ matchCall.input = "did services joining"
  /\ ScoreTable[matchCall.input][1].num * ScoreTable[matchCall.input][3].den
       = ScoreTable[matchCall.input][3].num * ScoreTable[matchCall.input][1].den
  /\ \A k \in 1..Len(questions) :
       ScoreGE(ScoreTable[matchCall.input][1], ScoreTable[matchCall.input][k])
  /\ questions[1].id # questions[3].id
  /\ matchCall.result = <<"q1">>

\* the score equals the threshold exactly and the key matches
C5_AtThreshold ==
  /\ matchCall.done
  /\ matchCall.input = "Thank you for zz"
  /\ matchCall.threshold = DefaultThreshold
  /\ ScoreTable[matchCall.input][1].num = DefaultThreshold * ScoreTable[matchCall.input][1].den
  /\ matchCall.result = <<"q1">>

\* the (direction, data) pairs of a log, in order
DirData(log) == [k \in 1..Len(log) |-> [direction |-> log[k].direction, data |-> log[k].data]]

\* the (direction, data) arguments of the record calls among a connection's calls
RECURSIVE RecordArgs(_)
RecordArgs(k) ==
  IF Len(k) = 0 THEN <<>>
  ELSE (IF Head(k).op = "record"
        THEN << [direction |-> Head(k).direction, data |-> Head(k).data] >>
        ELSE <<>>) \o RecordArgs(Tail(k))

\* the log file of the session that connection c started
OwnLog(c) == trace[TraceName(own[c])]

Active(c) == pc[c] \in {"recv", "send", "closed"}
Over(c)   == pc[c] \in {"done", "raised"}

\* C6: the log of a connection's session holds a "recv" entry for every
\* payload received on it and a "sent" entry for every payload sent on it.
C6_BothDirectionsLogged ==
  \A c \in Conns : \A i \in 1..Len(inbox[c]) :
    /\ \E k \in 1..Len(OwnLog(c)) :
         OwnLog(c)[k].direction = "recv" /\ OwnLog(c)[k].data = inbox[c][i]
    /\ replies[c][i].status = "sent"
         => \E k \in 1..Len(OwnLog(c)) :
              OwnLog(c)[k].direction = "sent" /\ OwnLog(c)[k].data = replies[c][i].out[1]

\* C7: with connections open side by side, the log of each connection's
\* session holds the payloads received on that connection and nothing else,
\* and while a connection is in its loop the recorder's buffer and log target
\* are that connection's own.
C7_SessionsIndependent ==
  \A c \in Conns :
    /\ own[c] # "None" => [k \in 1..Len(OwnLog(c)) |-> OwnLog(c)[k].data] = inbox[c]
    /\ Active(c) => /\ trace_file = TraceName(own[c])
                    /\ [k \in 1..Len(transcript) |-> transcript[k].data] = inbox[c]

\* C8: a connection calls start() once before anything else, then record()
\* once per inbound message, then stop() once when its loop ends, whatever
\* ended it; nothing is recorded before start() or after stop().
C8_StartRecordStop ==
  \A c \in Conns :
    LET k == calls[c]
        n == Len(inbox[c])
    IN  /\ pc[c] \in {"idle", "accepted"} => k = <<>> /\ n = 0
        /\ Active(c) => Len(k) = n + 1
        /\ Over(c)   => Len(k) = n + 2 /\ k[n + 2].op = "stop"
        /\ Len(k) > 0 => k[1].op = "start"
        /\ \A j \in 2..(n + 1) : j <= Len(k) => k[j].op = "record"

\* a connection ended by a fault, after a message, has made the three kinds of call
C8_Witness ==
  \E c \in Conns :
    /\ pc[c] = "raised"
    /\ Len(inbox[c]) = 1
    /\ FlexMessage_valid(inbox[c][1])
    /\ [j \in 1..Len(calls[c]) |-> calls[c][j].op] = <<"start", "record", "stop">>

\* C9: in a single session the log (the buffer while the session runs, and its
\* file) holds one entry per record() call, in call order, with the direction
\* and payload of that call.
C9_LogIsCallSequence ==
  /\ own[1] # "None" => DirData(OwnLog(1)) = RecordArgs(calls[1])
  /\ Active(1) => DirData(transcript) = RecordArgs(calls[1])

C9_Witness ==
  /\ Active(1)
  /\ Len(transcript) = 2
  /\ transcript[1].data # transcript[2].data
  /\ DirData(transcript) = << [direction |-> "recv", data |-> inbox[1][1]],
                              [direction |-> "recv", data |-> inbox[1][2]] >>

\* C10: in a single session, whenever record() has returned the trace file
\* equals the buffer, entry for entry; a connection that ends leaves on disk
\* every payload it received.
C10_FileEqualsBuffer ==
  /\ Active(1) => trace[trace_file] = transcript
  /\ Over(1) => [k \in 1..Len(OwnLog(1)) |-> OwnLog(1)[k].data] = inbox[1]

\* the connection ended abruptly after two messages, both on disk
C10_Witness ==
  /\ pc[1] = "raised"
  /\ Len(inbox[1]) = 2
  /\ Len(OwnLog(1)) = 2

(***************************************************************************)
(* The report file of a finished session.                                  *)
(***************************************************************************)
\* the report file of the session that connection c started
OwnRpt(c) == rpt[RptName(own[c])]

\* connection c has made its stop() call
Stopped(c) == Len(calls[c]) > 0 /\ calls[c][Len(calls[c])].op = "stop"

AllParse(log) == \A k \in 1..Len(log) : FlexMessage_valid(log[k].data)

\* the line a parsing payload is due in the report
DueLine(raw) ==
  LET msg == json_loads(raw)
  IN  CASE msg.name = "recognizeResults" /\ truthy(get_user_text(msg))
             -> << "Patient: " \o Get(get_user_text(msg)) >>
      []   msg.name = "conversationResult" /\ truthy(get_input_text(msg))
             -> << "Listener: " \o Get(get_input_text(msg)) >>
      []   OTHER -> << >>

\* the lines due to the parsing entries of a log, in the order of the log
RECURSIVE DueLines(_, _)
DueLines(log, k) ==
  IF k > Len(log) THEN << >>
  ELSE (IF FlexMessage_valid(log[k].data) THEN DueLine(log[k].data) ELSE << >>)
         \o DueLines(log, k + 1)

IsSuffix(s, t) == Len(s) <= Len(t) /\ SubSeq(t, Len(t) - Len(s) + 1, Len(t)) = s

\* C11: transcript generation is never aborted by one bad entry: once a
\* session is finalized, its report holds, in order, the lines due to every
\* entry that parses, whether or not some entry (the first included) does not.
C11_BadEntrySkipped ==
  Stopped(1) => IsSuffix(DueLines(OwnLog(1), 1), OwnRpt(1).lines)

\* C12: for a finished session with at least one entry, all of them parsing,
\* the report is the line "Datetime: <timestamp of the first entry>", the line
\* "SessionId: <data collector of the first entry's body>" (None when it has
\* none), then in log order one Patient line per recognizeResults entry that
\* yields user text and one Listener line per conversationResult entry with
\* input text, and nothing for any other entry.
C12_TranscriptLayout ==
  (Stopped(1) /\ Len(OwnLog(1)) > 0 /\ AllParse(OwnLog(1)))
    => LET first == json_loads(OwnLog(1)[1].data)
           id    == IF ~first.body.null /\ first.body.hasCollector
                    THEN first.body.dataCollector ELSE "None"
       IN  /\ OwnRpt(1).exists
           /\ OwnRpt(1).lines
                = << "Datetime: " \o ToString(OwnLog(1)[1].timestamp), "SessionId: " \o id >>
                    \o DueLines(OwnLog(1), 1)

\* a session started at second 1 and finished at second 2: a state message
\* with a data collector, then a recognition
C12_Witness ==
  /\ Stopped(1)
  /\ now = 2
  /\ inbox[1] = << "state_collector", "rec_hello" >>
  /\ OwnRpt(1).lines = << "Datetime: 1", "SessionId: abc", "Patient: Hello" >>

\* C17: a stop() call after start(), with any number of recorded entries
\* (none included), completes: it does not raise, the report file of the
\* session exists afterwards and the buffer is empty.
C17_StopCompletes ==
  [][\A c \in Conns :
       (Len(calls'[c]) = Len(calls[c]) + 1 /\ calls'[c][Len(calls'[c])].op = "stop")
         => /\ ~record_convertation(transcript).raised
            /\ rpt'[RptName(session_id)].exists
            /\ transcript' = << >>]_vars

\* the alternatives of the finalized results of a recognizeResults payload
FinalAlternatives(raw) ==
  LET results == json_loads(raw).body.results
  IN  UNION { { results[i].alternatives[j] : j \in 1..Len(results[i].alternatives) } :
              i \in { n \in 1..Len(results) : results[n].final } }

\* the transcript of the alternative of highest confidence among them
BestFinalTranscript(raw) ==
  (CHOOSE a \in FinalAlternatives(raw) :
     \A b \in FinalAlternatives(raw) : b.confidence <= a.confidence).transcript

\* C18: for a recognizeResults entry with at least one finalized result that
\* has alternatives, the report of the finished session (all of whose entries
\* parse) has the Patient line of the highest-confidence alternative among the
\* finalized results, wherever that result sits and whatever an earlier
\* finalized result holds.
C18_BestFinalAlternative ==
  (Stopped(1) /\ AllParse(OwnLog(1)))
    => \A k \in 1..Len(OwnLog(1)) :
         LET raw == OwnLog(1)[k].data
         IN  (json_loads(raw).name = "recognizeResults" /\ FinalAlternatives(raw) # {})
               => \E n \in 1..Len(OwnRpt(1).lines) :
                    OwnRpt(1).lines[n] = "Patient: " \o BestFinalTranscript(raw)

(***************************************************************************)
(* Messages the engine has no rule for, and faults.                        *)
(***************************************************************************)
\* the payload is no JSON, no JSON object, or an object without one of the
\* required fields
NotAnEnvelope(raw) ==
  \/ json_loads(raw).form # "object"
  \/ RequiredFields \ json_loads(raw).required # {}

\* the names the engine has rules for
KnownNames == {"conversationRequest", "conversationResult"}

\* an envelope whose name the engine has no rule for
UnknownName(raw) ==
  /\ ~NotAnEnvelope(raw)
  /\ json_loads(raw).name \notin KnownNames

\* connection c receives a message in this step
Receives(c) == Len(inbox'[c]) = Len(inbox[c]) + 1

\* in this step nothing is sent for the received message, no earlier reply
\* changes and the connection stays in its receive loop
StaysSilent(c) ==
  /\ replies'[c][Len(inbox'[c])] = [status |-> "silent", out |-> << >>]
  /\ \A i \in 1..Len(inbox[c]) : replies'[c][i] = replies[c][i]
  /\ pc'[c] = "recv"

\* C13: a message that is malformed JSON, no JSON object or an object lacking
\* category, kind or name is dropped: nothing at all is sent for it, the
\* connection stays in its receive loop, and the message received right after
\* it is answered exactly if it is a matching conversationResult.
C13_MalformedDropped ==
  [][\A c \in Conns :
       Receives(c)
         => /\ NotAnEnvelope(inbox'[c][Len(inbox'[c])]) => StaysSilent(c)
            /\ (Len(inbox[c]) > 0 /\ NotAnEnvelope(inbox[c][Len(inbox[c])]))
                 => (Len(replies'[c][Len(inbox'[c])].out) = 1
                       <=> Matching(inbox'[c][Len(inbox'[c])]))]_vars

\* an object without category was dropped and the result after it answered
C13_Witness ==
  /\ inbox[1] = << "res_exact_no_category", "res_exact" >>
  /\ replies[1][1] = [status |-> "silent", out |-> << >>]
  /\ replies[1][2].status = "sent"
  /\ pc[1] = "recv"

\* C14: an envelope that parses but whose name the engine has no rule for
\* gets no outbound message and raises no failure; the connection stays in
\* its receive loop for the next message.
C14_UnknownNameIgnored ==
  [][\A c \in Conns :
       (Receives(c) /\ UnknownName(inbox'[c][Len(inbox'[c])])) => StaysSilent(c)]_vars

\* an envelope of another name, carrying a text of the catalog, was passed
\* over and a second message was taken after it
C14_Witness ==
  /\ Len(inbox[1]) = 2
  /\ inbox[1][1] = "other_exact"
  /\ replies[1][1].status = "silent"
  /\ Handled(1, 2)

\* processing message i of connection c met a fault that is no malformed
\* input: the result handler raised, or sending the response failed
ProcessingFault(c, i) ==
  \/ replies[c][i].status = "failed"
  \/ /\ IsResult(inbox[c][i])
     /\ match_question_raises(json_loads(inbox[c][i]))

\* C15: once a message whose processing met such a fault has been handled,
\* the connection is terminated: no further message is taken, stop() has run
\* and the fault has left the endpoint.
C15_FaultTerminates ==
  \A c \in Conns : \A i \in 1..Len(inbox[c]) :
    (Handled(c, i) /\ ProcessingFault(c, i))
      => /\ i = Len(inbox[c])
         /\ Stopped(c)
         /\ pc[c] = "raised"

(***************************************************************************)
(* Order of processing, and the engine's lack of memory.                   *)
(***************************************************************************)
\* the reply to message i of connection c goes on the wire in this step
GoesOnWire(c, i) ==
  /\ i \in 1..Len(replies'[c])
  /\ replies'[c][i].status = "sent"
  /\ i > Len(replies[c]) \/ replies[c][i].status # "sent"

\* C19: within a connection a message is received only when the handling of
\* every earlier message, its send included, is over, and a response goes on
\* the wire only for the latest message received, so responses leave in the
\* order of the messages that caused them.
C19_OneAtATime ==
  [][\A c \in Conns :
       /\ Receives(c) => \A i \in 1..Len(inbox[c]) : replies[c][i].status # "sending"
       /\ \A i \in 1..Len(replies'[c]) :
            GoesOnWire(c, i)
              => /\ i = Len(inbox[c])
                 /\ \A j \in 1..(i - 1) : replies[c][j].status # "sending"]_vars

\* the first response of a connection is on the wire, the second being sent
C19_Witness ==
  \E c \in Conns :
    /\ Len(inbox[c]) = 2
    /\ replies[c][1].status = "sent"
    /\ replies[c][2].status = "sending"

RECURSIVE EngineOutputs(_, _)
EngineOutputs(records, k) ==
  IF k > Len(records) THEN << >>
  ELSE (IF is_inbound(records[k]) THEN handle_message(records[k].data) ELSE << >>)
         \o EngineOutputs(records, k + 1)

\* C16: a replay run that passes has fed all N inbound records and compared
\* all M recorded outbound texts; the engine has at least M outputs for the
\* recording and the first M of them are the recorded ones, in order.
C16_ReplayComplete ==
  replay.phase = "passed"
    => LET N        == Len(inbound_records(replay.records))
           expected == expected_responses(replay.records)
           M        == Len(expected)
           outputs  == EngineOutputs(replay.records, 1)
       IN  /\ replay.fed = N
           /\ replay.response_index = M
           /\ Len(outputs) >= M
           /\ SubSeq(outputs, 1, M) = expected

(***************************************************************************)
(* Logging before handling, and the end of the replay test.                *)
(***************************************************************************)
\* the log of connection c's session holds a "recv" entry with this payload
Logged(c, raw) ==
  \E k \in 1..Len(OwnLog(c)) :
    OwnLog(c)[k].direction = "recv" /\ OwnLog(c)[k].data = raw

\* C21: from the moment the handling of a message starts, whether a response
\* is being sent, has been sent, or the message was passed over as malformed
\* or unknown, the log of the connection's session holds the "recv" entry of
\* that message.
C21_LoggedBeforeHandled ==
  \A c \in Conns : \A i \in 1..Len(inbox[c]) : Logged(c, inbox[c][i])

\* the replay test is over: passed or failed, and its connection closed
ReplayOver ==
  /\ replay.phase \in {"passed", "failed"}
  /\ pc[1] \in {"done", "raised"}

\* C22: the replay run terminates for every recording: as long as it is not
\* over, the test or the server it talks to can take a step; in particular
\* the test never waits in receive_text for a text that will not come.
C22_ReplayTerminates ==
  ReplayOver \/ ENABLED NextReplay

====
